---- MODULE Spec2Model ----
(***************************************************************************)
(* Model of "Image Classifier Project.ipynb": the running-statistic        *)
(* tracker (ValueCache), the top-K accuracy scorer (accuracy_score), and   *)
(* the notebook's script: training loop, checkpoint save / load and the    *)
(* reload check.                                                           *)
(*                                                                         *)
(* Numbers that the notebook holds as floats are modelled as exact         *)
(* rationals <<numerator, denominator>> in lowest terms, denominator > 0.  *)
(***************************************************************************)
EXTENDS Integers, Sequences, FiniteSets, TLC

(***************************************************************************)
(* Bounds                                                                  *)
(***************************************************************************)
MaxVal == 2
MaxWeight == 2
MaxUpdates == 3
NAcc == 2

\* Python's None, also the content of a variable not assigned yet
None == <<>>

(***************************************************************************)
(* Exact rational arithmetic (the notebook runs with true division,        *)
(* `from __future__ import division`).                                     *)
(***************************************************************************)
Abs(x) == IF x < 0 THEN -x ELSE x

RECURSIVE GCD(_, _)
GCD(a, b) == IF b = 0 THEN a ELSE GCD(b, a % b)

Norm(n, d) == LET g == GCD(Abs(n), d) IN <<n \div g, d \div g>>

Zero == <<0, 1>>
Rat(i) == <<i, 1>>
RAdd(x, y) ==
    LET g == GCD(x[2], y[2])
    IN  Norm(x[1] * (y[2] \div g) + y[1] * (x[2] \div g), (x[2] \div g) * y[2])
RMulInt(x, n) == Norm(x[1] * n, x[2])
RDivInt(x, n) == Norm(x[1], x[2] * n)
RLess(x, y) == x[1] * y[2] < y[1] * x[2]
RLeq(x, y) == x[1] * y[2] <= y[1] * x[2]
PyMax_first(a, b) == a
\* Python's max(a, b): a unless b is strictly greater
PyMax(a, b) == IF RLess(a, b) THEN b ELSE a

RECURSIVE SeqSum(_)
SeqSum(s) == IF s = <<>> THEN 0 ELSE Head(s) + SeqSum(Tail(s))

(***************************************************************************)
(* ValueCache                                                              *)
(***************************************************************************)
VCReset_keepMean(c) == [value |-> Zero, sum |-> Zero, count |-> 0, mean |-> c.mean]
\* reset(): the argument is the object before the call
VCReset(c) == [value |-> Zero, sum |-> Zero, count |-> 0, mean |-> Zero]

\* __init__ calls reset() on the new object
VCNew == VCReset([value |-> None, sum |-> None, count |-> None, mean |-> None])

\* update raises ZeroDivisionError at its last line when the new count is 0
VCUpdateRaises(c, value, n) == c.count + n = 0

VCUpdate_unweighted(c, value, n) ==
    LET s == RAdd(c.sum, value)
        k == c.count + n
    IN  [value |-> value, sum |-> s, count |-> k,
         mean |-> IF k = 0 THEN c.mean ELSE RDivInt(s, k)]
\* update(value, n): the first three assignments always happen; the mean is
\* assigned only when the division does not raise
VCUpdate(c, value, n) ==
    LET s == RAdd(c.sum, RMulInt(value, n))
        k == c.count + n
    IN  [value |-> value, sum |-> s, count |-> k,
         mean |-> IF k = 0 THEN c.mean ELSE RDivInt(s, k)]

(***************************************************************************)
(* accuracy_score                                                          *)
(***************************************************************************)
RECURSIVE SeqMax(_)
SeqMax(s) == IF Len(s) = 1 THEN s[1]
             ELSE LET m == SeqMax(Tail(s)) IN IF s[1] > m THEN s[1] ELSE m

TopK_smallest(scores, k) ==
    LET Idx == DOMAIN scores
    IN  { p \in [1..k -> Idx] :
            /\ \A i, j \in 1..k : i < j => p[i] # p[j] /\ scores[p[i]] <= scores[p[j]]
            /\ \A c \in Idx : (\A i \in 1..k : p[i] # c) =>
                    \A i \in 1..k : scores[p[i]] <= scores[c] }
\* output.topk(k, 1, True, True) for one row: the k indices of the largest
\* scores, in non-increasing score order.  The order among equal scores is
\* not specified by the library, so every admissible answer is a result.
TopK(scores, k) ==
    LET Idx == DOMAIN scores
    IN  { p \in [1..k -> Idx] :
            /\ \A i, j \in 1..k : i < j => p[i] # p[j] /\ scores[p[i]] >= scores[p[j]]
            /\ \A c \in Idx : (\A i \in 1..k : p[i] # c) =>
                    \A i \in 1..k : scores[p[i]] >= scores[c] }

\* preds.eq(target.view(1, -1).expand(preds.size())), kept per example:
\* correct[b][r] is TRUE iff the r-th ranked index of example b is its label
Correct(preds, target) ==
    [b \in 1..Len(target) |-> [r \in DOMAIN preds[b] |-> preds[b][r] = target[b]]]

CorrectK_rowOnly(correct, k) ==
    SeqSum([b \in 1..Len(correct) |->
              Cardinality({r \in k..k : correct[b][r]})])
\* correct[:k].view(-1).float().sum(0)
CorrectK(correct, k) ==
    SeqSum([b \in 1..Len(correct) |->
              Cardinality({r \in 1..k : correct[b][r]})])

\* the body of accuracy_score once topk has answered preds
AccuracyScore(preds, target, top_k) ==
    LET n_batch == Len(target)
        correct == Correct(preds, target)
    IN  [i \in 1..Len(top_k) |-> Norm(CorrectK(correct, top_k[i]) * 100, n_batch)]

(***************************************************************************)
(* The script: data, network, optimizer                                    *)
(***************************************************************************)
\* number of class directories and of examples in the three image folders
NClasses == 3
NTrain == 3
NValid == 3
NTest == 3
\* batch_size of the loaders (64 in the notebook), scaled to the data sets so
\* that the last batch of a pass is a smaller one
BatchSize == 2
\* the notebook sets epochs = 5; the configured count ranges over 1..MaxEpochs
MaxEpochs == 3
WVals == 0..2
BnVals == 0..1
Pretrained == 1

\* class directories of the training folder, in the sorted order of
\* datasets.folder.find_classes
AllNames == <<"1", "10", "2", "74", "8">>
Classes == SubSeq(AllNames, 1, NClasses)
\* A Python dict stands as the sequence of its items <<key, value>> in
\* insertion order, the keys distinct.
DictKeys(d) == {d[j][1] : j \in 1..Len(d)}
\* d[k] for a key of d
DictGet(d, k) == d[CHOOSE j \in 1..Len(d) : d[j][1] = k][2]

\* image_datasets['train'].class_to_idx: the sorted class names numbered
\* from 0
ClassToIdx == [i \in 1..NClasses |-> <<Classes[i], i - 1>>]

\* the three image folders: each example is <<image, label index>>.  The
\* labels are placed so that the accuracy of a pass varies with the weights.
TrainData == [i \in 1..NTrain |-> <<i - 1, (i - 1) % NClasses>>]
ValidData == [i \in 1..NValid |->
                <<i - 1, (i - 1 + (IF i = NValid THEN 1 ELSE 0)) % NClasses>>]
TestData == [i \in 1..NTest |->
                <<i - 1, (i - 1 + (IF i = 1 THEN 0 ELSE 1)) % NClasses>>]
Dataset(name) == IF name = "train" THEN TrainData
                 ELSE IF name = "valid" THEN ValidData ELSE TestData

\* DataLoader(shuffle=True): one epoch of the loader visits the examples in
\* an arbitrary order
Shuffles(n) == { p \in [1..n -> 1..n] : \A i, j \in 1..n : i # j => p[i] # p[j] }
Min(a, b) == IF a < b THEN a ELSE b
\* DataLoader(batch_size=...): the next batch and what is left after it
NextBatch(q) == SubSeq(q, 1, Min(BatchSize, Len(q)))
RestAfterBatch(q) == SubSeq(q, Min(BatchSize, Len(q)) + 1, Len(q))

NewModel_noFreeze(n_classes, head) ==
    [w |-> [frozen |-> Pretrained, head |-> head, bn |-> 0],
     requires_grad |-> [frozen |-> TRUE, head |-> TRUE],
     n_out |-> n_classes,
     training |-> TRUE, device |-> "cpu", dtype |-> "float",
     has |-> {},
     n_classes |-> 0, epoch |-> 0, best_acc |-> None,
     optimizer_state |-> None, class_to_idx |-> None]
\* NewModel(n_classes): pretrained parameters are frozen, the new classifier
\* (randomly initialised, here head) is trainable; bn stands for the batch-norm
\* running statistics, which are buffers and not parameters.  has is the set
\* of attributes the script has attached to the object: none on a new one.
NewModel(n_classes, head) ==
    [w |-> [frozen |-> Pretrained, head |-> head, bn |-> 0],
     requires_grad |-> [frozen |-> FALSE, head |-> TRUE],
     n_out |-> n_classes,
     training |-> TRUE, device |-> "cpu", dtype |-> "float",
     has |-> {},
     n_classes |-> 0, epoch |-> 0, best_acc |-> None,
     optimizer_state |-> None, class_to_idx |-> None]

\* model(images) for one image: the network is an external collaborator, so
\* its scores are an arbitrary fixed function of the weights, the buffers
\* and the image; noise is the effect of dropout (0 in eval mode)
Forward(w, img, noise) ==
    LET top == (w.frozen * img + w.head + w.bn + noise) % NClasses
    IN  [c \in 0..(NClasses - 1) |-> NClasses - ((c - top + NClasses) % NClasses)]

(***************************************************************************)
(* exp and log in fixed point: a real x stands as the integer x * FixScale. *)
(* Products and quotients are taken in pieces so that no intermediate       *)
(* value leaves 32 bits.                                                    *)
(***************************************************************************)
FixScale == 1000000
\* exp(-1) * FixScale
ExpMinusOne == 367879
\* a * b / FixScale
MulFix(a, b) == ((a \div 1000) * b) \div 1000 + ((a % 1000) * b) \div FixScale
\* a * FixScale / b for 0 <= a < b
DivFix(a, b) ==
    LET q1 == (a * 100) \div b
        r1 == (a * 100) % b
        q2 == (r1 * 100) \div b
        r2 == (r1 * 100) % b
        q3 == (r2 * 100) \div b
    IN  q1 * 10000 + q2 * 100 + q3
RECURSIVE ExpNeg(_)
\* exp(-k) for a natural k
ExpNeg(k) == IF k = 0 THEN FixScale ELSE MulFix(ExpNeg(k - 1), ExpMinusOne)
RECURSIVE AtanhSeries(_, _, _)
\* t + t^3/3 + t^5/5 + ... from the term p = t^n on
AtanhSeries(t, p, n) ==
    IF p = 0 THEN 0 ELSE p \div n + AtanhSeries(t, MulFix(MulFix(p, t), t), n + 2)
\* log(z) for z >= 1, as 2 * atanh((z - 1) / (z + 1))
Ln(z) == LET t == DivFix(z - FixScale, z + FixScale) IN 2 * AtanhSeries(t, t, 1)
\* the largest score of a row of scores (a function or a sequence)
RowMax(xs) == CHOOSE m \in {xs[j] : j \in DOMAIN xs} : \A j \in DOMAIN xs : xs[j] <= m
RECURSIVE SetSum(_, _)
\* the sum of f over a finite set
SetSum(f, S) == IF S = {} THEN 0
                ELSE LET j == CHOOSE j \in S : TRUE IN f[j] + SetSum(f, S \ {j})
\* log(sum_j exp(x_j)) of a row of integer scores
LogSumExp(xs) ==
    LET m == RowMax(xs)
        e == [j \in DOMAIN xs |-> ExpNeg(m - xs[j])]
    IN  m * FixScale + Ln(SetSum(e, DOMAIN xs))

\* nn.CrossEntropyLoss(): the mean over the batch of
\* log(sum_j exp(x_j)) - x_label, kept to four decimals
Criterion(output, labels) ==
    LET row(b) == LogSumExp(output[b]) - output[b][labels[b]] * FixScale
        mean == SeqSum([b \in 1..Len(labels) |-> row(b)]) \div Len(labels)
    IN  Norm((mean + 50) \div 100, FixScale \div 100)

\* optim.SGD(filter(lambda p: p.requires_grad, model.parameters()), ...)
SGD(m) == [params |-> {p \in {"frozen", "head"} : m.requires_grad[p]}, state |-> 0]

\* optimizer.step(): new values for the parameters the optimizer holds,
\* one more step in its state
StepWeights(w, opt, nw) ==
    [p \in DOMAIN w |-> IF p \in opt.params THEN nw[p] ELSE w[p]]

StateDict_headOnly(m) == [m.w EXCEPT !.frozen = 0, !.bn = 0]
\* model.state_dict(): every parameter and buffer
StateDict(m) == m.w

LoadStateDict_skip(m, sd) == m
\* model.load_state_dict(sd)
LoadStateDict(m, sd) == [m EXCEPT !.w = sd]

\* save_checkpoint reads five attributes the script attaches to the model;
\* a missing one raises AttributeError
SaveRaises(m) ==
    ~({"epoch", "optimizer_state", "best_acc", "class_to_idx", "n_classes"} \subseteq m.has)

Checkpoint_loopVariable(m) ==
    [exists |-> TRUE,
     epoch |-> m.epoch - 1,
     state_dict |-> StateDict(m),
     optimizer_state_dict |-> m.optimizer_state,
     best_acc |-> m.best_acc,
     class_to_idx |-> m.class_to_idx,
     n_classes |-> m.n_classes]
\* the bundle save_checkpoint writes
Checkpoint(m) ==
    [exists |-> TRUE,
     epoch |-> m.epoch,
     state_dict |-> StateDict(m),
     optimizer_state_dict |-> m.optimizer_state,
     best_acc |-> m.best_acc,
     class_to_idx |-> m.class_to_idx,
     n_classes |-> m.n_classes]

\* load_checkpoint(model=None): the model and the optimizer it returns,
\* given the random initialisation of the fresh classifier
LoadCheckpoint(file, head) ==
    LET fresh == NewModel(NClasses, head)
        m == LoadStateDict(fresh, file.state_dict)
    IN  <<m, [SGD(m) EXCEPT !.state = file.optimizer_state_dict]>>

\* ./checkpoint.pth: absent, or left by an earlier run of the notebook
NoFile == [exists |-> FALSE]
StaleFile ==
    [exists |-> TRUE, epoch |-> 7,
     state_dict |-> [frozen |-> Pretrained, head |-> 0, bn |-> 0],
     optimizer_state_dict |-> 0, best_acc |-> Zero,
     class_to_idx |-> ClassToIdx, n_classes |-> NClasses]

(***************************************************************************)
(* State                                                                   *)
(***************************************************************************)
VARIABLES
    pc,             \* position of the script
    ctx,            \* which call of validate is running: "epoch", "test", "reload"
    device,         \* global device, chosen once
    epochs,         \* global epochs
    epoch,          \* loop variable of the training loop
    loopDone,       \* the for statement has found range(epochs) exhausted
    best_acc,       \* global best_acc
    accuracy,       \* global accuracy
    model,          \* global model
    optimizer,      \* global optimizer
    losses,         \* local losses of the running train / validate
    acc,            \* local acc of the running train / validate
    queue,          \* examples the running loader has still to deliver
    ret,            \* value returned by the last train / validate call
    testAcc,        \* test accuracy printed by the test cell
    disk,           \* content of ./checkpoint.pth
    reloaded,       \* global reloaded
    reoptimizer,    \* global reoptimizer
    reloadAcc,      \* test accuracy printed by the reload cell
    wAtPass,        \* history: weights of the model when the running pass began
    accHist,        \* history: accuracies validate returned, one per epoch
    vc,             \* a ValueCache used on its own
    vcHist,         \* history: the <<value, n>> of the updates since the last reset
    vcPrior,        \* history: number of updates before the last reset
    vcErr,          \* exception raised by the last ValueCache call, or "none"
    vcOp,           \* the last ValueCache call
    aOutput,        \* accuracy_score argument output: one score vector per example
    aTarget,        \* accuracy_score argument target
    aTopK,          \* accuracy_score argument top_k
    aPreds,         \* what topk answered
    aRet,           \* what accuracy_score returned
    pModel,         \* predict argument model
    pExists,        \* whether predict's image_path resolves to an existing file
    pImage,         \* what that file holds: "text" or the mode of the image
    pTopk,          \* predict argument topk
    pOpened,        \* whether predict has opened the image file
    pOutput,        \* raw output of the model for the image
    pIdx,           \* label_idx[0], the indices topk selected
    pRet,           \* <<prob, label_classes>> returned by predict
    pErr,           \* exception raised by predict, or "none"
    iW,             \* process_image: width of the input image
    iH,             \* process_image: height of the input image
    iS,             \* process_image argument out_size
    iResized,       \* size <<width, height>> of the image after resize
    iBox,           \* crop box <<left, upper, right, lower>>
    iShape,         \* shape of the array process_image returns
    gArg,           \* get_data argument data_dir
    gFs,            \* the paths that exist on disk
    gFs0,           \* history: the paths that existed when get_data was called
    gNet,           \* whether the network answers the download
    gRequests,      \* number of network requests made
    gExtracted,     \* directory the archive was extracted into, or None
    gOutcome        \* "none", "returned" or "raised"

scriptVars == <<pc, ctx, device, epochs, epoch, loopDone, best_acc, accuracy, model, optimizer,
                losses, acc, queue, ret, testAcc, disk, reloaded, reoptimizer,
                reloadAcc, wAtPass, accHist>>
vcVars == <<vc, vcHist, vcPrior, vcErr, vcOp>>
accVars == <<aOutput, aTarget, aTopK, aPreds, aRet>>
predVars == <<pModel, pExists, pImage, pTopk, pOpened, pOutput, pIdx, pRet, pErr>>
imgVars == <<iW, iH, iS, iResized, iBox, iShape>>
dataVars == <<gArg, gFs, gFs0, gNet, gRequests, gExtracted, gOutcome>>
extVars == <<predVars, imgVars, dataVars>>
vars == <<scriptVars, vcVars, accVars, extVars>>

\* the parts of the state a specification does not use
ScriptIdle ==
    /\ pc = "idle" /\ ctx = "none" /\ device = "cpu" /\ epochs = 0 /\ epoch = 0
    /\ loopDone = FALSE
    /\ best_acc = Zero /\ accuracy = None /\ model = None /\ optimizer = None
    /\ losses = None /\ acc = None /\ queue = <<>> /\ ret = None /\ testAcc = None
    /\ disk = NoFile /\ reloaded = None /\ reoptimizer = None /\ reloadAcc = None
    /\ wAtPass = None /\ accHist = <<>>
VCIdle ==
    /\ vc = None /\ vcHist = <<>> /\ vcPrior = 0 /\ vcErr = "none" /\ vcOp = "none"
AccIdle ==
    /\ aOutput = <<>> /\ aTarget = <<>> /\ aTopK = <<>> /\ aPreds = <<>> /\ aRet = None
PredIdle ==
    /\ pModel = None /\ pExists = FALSE /\ pImage = "none" /\ pTopk = 0
    /\ pOpened = FALSE
    /\ pOutput = <<>> /\ pIdx = <<>> /\ pRet = None /\ pErr = "none"
ImgIdle ==
    /\ iW = 0 /\ iH = 0 /\ iS = 0 /\ iResized = None /\ iBox = None /\ iShape = None
DataIdle ==
    /\ gArg = "" /\ gFs = {} /\ gFs0 = {} /\ gNet = FALSE /\ gRequests = 0
    /\ gExtracted = None /\ gOutcome = "none"
ExtIdle == PredIdle /\ ImgIdle /\ DataIdle

(***************************************************************************)
(* The script                                                              *)
(***************************************************************************)
\* the cell "Main program Start" at the top of the first iteration: the for
\* statement has assigned epoch = 0 (epochs >= 1)
Init ==
    /\ pc = "loop"
    /\ ctx = "none"
    /\ device \in {"cpu", "cuda"}
    /\ epochs \in 1..MaxEpochs
    /\ epoch = 0
    /\ loopDone = FALSE
    /\ best_acc = Zero
    /\ accuracy = None
    /\ \E head \in WVals :
          /\ model = [NewModel(NClasses, head) EXCEPT
                         !.n_classes = NClasses, !.has = {"n_classes"}]
          /\ optimizer = SGD(model)
    /\ losses = None /\ acc = None /\ queue = <<>> /\ ret = None
    /\ testAcc = None
    /\ disk \in {NoFile, StaleFile}
    /\ reloaded = None /\ reoptimizer = None /\ reloadAcc = None
    /\ wAtPass = None /\ accHist = <<>>
    /\ VCIdle /\ AccIdle /\ ExtIdle

\* the images and the labels of a batch of a data set
Images(name, batch) == [b \in 1..Len(batch) |-> Dataset(name)[batch[b]][1]]
Labels(name, batch) == [b \in 1..Len(batch) |-> Dataset(name)[batch[b]][2]]

\* output.topk(k, 1, True, True) for a whole batch
TopKBatch(output, k) ==
    { p \in [1..Len(output) -> UNION {TopK(output[b], k) : b \in 1..Len(output)}] :
        \A b \in 1..Len(output) : p[b] \in TopK(output[b], k) }

BatchWeight_one(images) == 1
\* images.size(0): the weight both passes give a batch in the trackers
BatchWeight(images) == Len(images)

\* train(...): from the call to the first batch
TrainBegin ==
    /\ pc = "loop" /\ ~loopDone
    /\ losses' = VCNew
    /\ acc' = VCNew
    /\ model' = [model EXCEPT !.device = device, !.training = TRUE]
    /\ queue' \in Shuffles(NTrain)
    /\ wAtPass' = model.w
    /\ ctx' = "epoch"
    /\ pc' = "train"
    /\ UNCHANGED <<device, epochs, epoch, loopDone, best_acc, accuracy, optimizer, ret, testAcc,
                   disk, reloaded, reoptimizer, reloadAcc, accHist, vcVars, accVars, extVars>>

\* train(...): one iteration of the batch loop
TrainBatch ==
    /\ pc = "train" /\ queue # <<>>
    /\ LET batch == NextBatch(queue)
           labels == Labels("train", batch)
           images == Images("train", batch)
       IN  \E noise \in 0..1 :
             LET output == [b \in 1..Len(batch) |-> Forward(model.w, images[b], noise)]
                 loss == Criterion(output, labels)
             IN  \E bn \in BnVals, nw \in [optimizer.params -> WVals],
                    preds \in TopKBatch(output, 1) :
                   /\ losses' = VCUpdate(losses, loss, BatchWeight(images))
                   /\ acc' = VCUpdate(acc, AccuracyScore(preds, labels, <<1>>)[1],
                                      BatchWeight(images))
                   /\ model' = [model EXCEPT
                                  !.w = StepWeights([model.w EXCEPT !.bn = bn], optimizer, nw)]
                   /\ optimizer' = [optimizer EXCEPT !.state = @ + 1]
    /\ queue' = RestAfterBatch(queue)
    /\ UNCHANGED <<pc, ctx, device, epochs, epoch, loopDone, best_acc, accuracy, ret, testAcc,
                   disk, reloaded, reoptimizer, reloadAcc, wAtPass, accHist,
                   vcVars, accVars, extVars>>

TrainResult_mean(a) == a.mean
\* what train returns: it ends in pass
TrainResult(a) == None

\* train(...): the loader is exhausted, the function returns
TrainReturn ==
    /\ pc = "train" /\ queue = <<>>
    /\ ret' = TrainResult(acc)
    /\ pc' = "epoch_validate"
    /\ UNCHANGED <<ctx, device, epochs, epoch, loopDone, best_acc, accuracy, model, optimizer,
                   losses, acc, queue, testAcc, disk, reloaded, reoptimizer,
                   reloadAcc, wAtPass, accHist, vcVars, accVars, extVars>>

\* the model a call of validate works on, and the data set it is given
CurModel == IF ctx = "reload" THEN reloaded ELSE model
CurData == IF ctx = "epoch" THEN "valid" ELSE "test"
DataLen(name) == Len(Dataset(name))

\* validate(...): from the call to the first batch
ValidateBegin ==
    /\ pc \in {"epoch_validate", "test_cell", "reload_cell"}
    /\ ctx' = IF pc = "epoch_validate" THEN "epoch"
              ELSE IF pc = "test_cell" THEN "test" ELSE "reload"
    /\ losses' = VCNew
    /\ acc' = VCNew
    /\ IF pc = "reload_cell"
         THEN /\ reloaded' = [reloaded EXCEPT !.device = device, !.training = FALSE]
              /\ wAtPass' = reloaded.w
              /\ model' = model
         ELSE /\ model' = [model EXCEPT !.device = device, !.training = FALSE]
              /\ wAtPass' = model.w
              /\ reloaded' = reloaded
    /\ queue' \in Shuffles(DataLen(IF pc = "epoch_validate" THEN "valid" ELSE "test"))
    /\ pc' = "validate"
    /\ UNCHANGED <<device, epochs, epoch, loopDone, best_acc, accuracy, optimizer, ret, testAcc,
                   disk, reoptimizer, reloadAcc, accHist, vcVars, accVars, extVars>>

\* validate(...): one iteration of the batch loop
ValidateBatch ==
    /\ pc = "validate" /\ queue # <<>>
    /\ LET batch == NextBatch(queue)
           labels == Labels(CurData, batch)
           images == Images(CurData, batch)
           output == [b \in 1..Len(batch) |-> Forward(CurModel.w, images[b], 0)]
           loss == Criterion(output, labels)
       IN  \E preds \in TopKBatch(output, 1) :
             /\ losses' = VCUpdate(losses, loss, BatchWeight(images))
             /\ acc' = VCUpdate(acc, AccuracyScore(preds, labels, <<1>>)[1],
                                BatchWeight(images))
    /\ queue' = RestAfterBatch(queue)
    /\ UNCHANGED <<pc, ctx, device, epochs, epoch, loopDone, best_acc, accuracy, model, optimizer,
                   ret, testAcc, disk, reloaded, reoptimizer, reloadAcc, wAtPass,
                   accHist, vcVars, accVars, extVars>>

ValidateResult_lastBatch(a) == a.value
\* what validate returns: return acc.mean
ValidateResult(a) == a.mean

\* validate(...): the loader is exhausted, the function returns
ValidateReturn ==
    /\ pc = "validate" /\ queue = <<>>
    /\ ret' = ValidateResult(acc)
    /\ pc' = IF ctx = "epoch" THEN "epoch_end"
             ELSE IF ctx = "test" THEN "test_end" ELSE "reload_end"
    /\ UNCHANGED <<ctx, device, epochs, epoch, loopDone, best_acc, accuracy, model, optimizer,
                   losses, acc, queue, testAcc, disk, reloaded, reoptimizer,
                   reloadAcc, wAtPass, accHist, vcVars, accVars, extVars>>

EpochAttrs_loopIndex(m, ep, best, opt) ==
    [m EXCEPT !.epoch = ep,
              !.best_acc = best,
              !.optimizer_state = opt.state,
              !.has = @ \cup {"epoch", "best_acc", "optimizer_state"}]
\* model.epoch = epoch + 1; model.best_acc = best_acc;
\* model.optimizer_state = optimizer.state_dict()
EpochAttrs(m, ep, best, opt) ==
    [m EXCEPT !.epoch = ep + 1,
              !.best_acc = best,
              !.optimizer_state = opt.state,
              !.has = @ \cup {"epoch", "best_acc", "optimizer_state"}]

\* for epoch in range(epochs), after an iteration: the next index is
\* assigned to epoch, or the range is exhausted and epoch keeps its value
ForNext(ep, n) ==
    IF ep + 1 < n THEN [epoch |-> ep + 1, done |-> FALSE]
                  ELSE [epoch |-> ep, done |-> TRUE]

\* the rest of the loop body: best_acc and the attributes kept for
\* checkpoints; then the for statement takes the next index or ends the loop
EpochEnd ==
    /\ pc = "epoch_end"
    /\ accuracy' = ret
    /\ best_acc' = PyMax(ret, best_acc)
    /\ model' = EpochAttrs(model, epoch, best_acc', optimizer)
    /\ accHist' = Append(accHist, ret)
    /\ epoch' = ForNext(epoch, epochs).epoch
    /\ loopDone' = ForNext(epoch, epochs).done
    /\ pc' = "loop"
    /\ UNCHANGED <<ctx, device, epochs, optimizer, losses, acc, queue, ret, testAcc,
                   disk, reloaded, reoptimizer, reloadAcc, wAtPass, vcVars, accVars, extVars>>

\* the loop is over: model.class_to_idx = image_datasets['train'].class_to_idx
LoopExit ==
    /\ pc = "loop" /\ loopDone
    /\ model' = [model EXCEPT !.class_to_idx = ClassToIdx, !.has = @ \cup {"class_to_idx"}]
    /\ pc' = "test_cell"
    /\ UNCHANGED <<ctx, device, epochs, epoch, loopDone, best_acc, accuracy, optimizer, losses,
                   acc, queue, ret, testAcc, disk, reloaded, reoptimizer, reloadAcc,
                   wAtPass, accHist, vcVars, accVars, extVars>>

\* the test cell prints what validate returned
TestEnd ==
    /\ pc = "test_end"
    /\ testAcc' = ret
    /\ pc' = "save"
    /\ UNCHANGED <<ctx, device, epochs, epoch, loopDone, best_acc, accuracy, model, optimizer,
                   losses, acc, queue, ret, disk, reloaded, reoptimizer, reloadAcc,
                   wAtPass, accHist, vcVars, accVars, extVars>>

\* save_checkpoint(model): torch.save replaces the file
SaveCell ==
    /\ pc = "save"
    /\ IF SaveRaises(model)
         THEN /\ pc' = "error"
              /\ disk' = disk
         ELSE /\ pc' = "load"
              /\ disk' = Checkpoint(model)
    /\ UNCHANGED <<ctx, device, epochs, epoch, loopDone, best_acc, accuracy, model, optimizer,
                   losses, acc, queue, ret, testAcc, reloaded, reoptimizer, reloadAcc,
                   wAtPass, accHist, vcVars, accVars, extVars>>

\* reloaded, reoptimizer = load_checkpoint()
LoadCell ==
    /\ pc = "load"
    /\ \E head \in WVals :
          /\ reloaded' = LoadCheckpoint(disk, head)[1]
          /\ reoptimizer' = LoadCheckpoint(disk, head)[2]
    /\ pc' = "reload_cell"
    /\ UNCHANGED <<ctx, device, epochs, epoch, loopDone, best_acc, accuracy, model, optimizer,
                   losses, acc, queue, ret, testAcc, disk, reloadAcc, wAtPass,
                   accHist, vcVars, accVars, extVars>>

\* the reload cell prints what validate returned for the reloaded model
ReloadEnd ==
    /\ pc = "reload_end"
    /\ reloadAcc' = ret
    /\ pc' = "done"
    /\ UNCHANGED <<ctx, device, epochs, epoch, loopDone, best_acc, accuracy, model, optimizer,
                   losses, acc, queue, ret, testAcc, disk, reloaded, reoptimizer,
                   wAtPass, accHist, vcVars, accVars, extVars>>

Next ==
    \/ TrainBegin
    \/ TrainBatch
    \/ TrainReturn
    \/ ValidateBegin
    \/ ValidateBatch
    \/ ValidateReturn
    \/ EpochEnd
    \/ LoopExit
    \/ TestEnd
    \/ SaveCell
    \/ LoadCell
    \/ ReloadEnd

Spec == Init /\ [][Next]_vars

(***************************************************************************)
(* ValueCache used on its own: any sequence of reset and update calls      *)
(***************************************************************************)
\* values handed to update: 0, 1/2, 1, ... MaxVal
Values == {Norm(i, 2) : i \in 0..(2 * MaxVal)}

\* acc = ValueCache()
InitVC ==
    /\ vc = VCNew
    /\ vcHist = <<>>
    /\ vcPrior = 0
    /\ vcErr = "none"
    /\ vcOp = "init"
    /\ ScriptIdle /\ AccIdle /\ ExtIdle

\* vc.reset()
VCResetCall ==
    /\ vc' = VCReset(vc)
    /\ vcPrior' = Len(vcHist)
    /\ vcHist' = <<>>
    /\ vcErr' = "none"
    /\ vcOp' = "reset"
    /\ UNCHANGED <<scriptVars, accVars, extVars>>

\* vc.update(value, n)
VCUpdateCall ==
    /\ Len(vcHist) < MaxUpdates
    /\ \E value \in Values, n \in 0..MaxWeight :
          /\ vc' = VCUpdate(vc, value, n)
          /\ vcErr' = IF VCUpdateRaises(vc, value, n) THEN "ZeroDivisionError" ELSE "none"
          /\ vcHist' = Append(vcHist, <<value, n>>)
    /\ vcOp' = "update"
    /\ UNCHANGED <<vcPrior, scriptVars, accVars, extVars>>

NextVC ==
    \/ VCResetCall
    \/ VCUpdateCall

SpecVC == InitVC /\ [][NextVC]_vars

(***************************************************************************)
(* accuracy_score used on its own: any batch, any labels, any top_k        *)
(***************************************************************************)
AccIdx == 0..(NAcc - 1)
\* sizes of the batches and raw scores handed to accuracy_score; equal
\* scores make topk's tie-breaking matter
BatchLens == 1..2
Scores == 0..1

InitAcc ==
    /\ \E n \in BatchLens :
          /\ aOutput \in [1..n -> [AccIdx -> Scores]]
          /\ aTarget \in [1..n -> AccIdx]
    /\ aTopK \in [1..1 -> 1..NAcc] \cup [1..2 -> 1..NAcc]
    /\ aPreds = <<>>
    /\ aRet = None
    /\ ScriptIdle /\ VCIdle /\ ExtIdle

\* accuracy_score(output, target, top_k)
AccuracyScoreCall ==
    /\ aRet = None
    /\ \E preds \in TopKBatch(aOutput, SeqMax(aTopK)) :
          /\ aPreds' = preds
          /\ aRet' = AccuracyScore(preds, aTarget, aTopK)
    /\ UNCHANGED <<aOutput, aTarget, aTopK, scriptVars, vcVars, extVars>>

NextAcc ==
    \/ AccuracyScoreCall

SpecAcc == InitAcc /\ [][NextAcc]_vars

(***************************************************************************)
(* Properties                                                              *)
(***************************************************************************)
\* load_checkpoint has returned
AfterLoad ==
    \/ pc \in {"reload_cell", "reload_end", "done"}
    \/ pc = "validate" /\ ctx = "reload"
\* save_checkpoint has returned
AfterSave == pc = "load" \/ AfterLoad

\* C1: after save_checkpoint and load_checkpoint the reloaded model carries
\* the class-to-index mapping of the saved model
C1_ReloadedCarriesMapping ==
    AfterLoad => /\ "class_to_idx" \in reloaded.has
                 /\ reloaded.class_to_idx = model.class_to_idx

\* C2: after save_checkpoint and load_checkpoint every weight (and buffer)
\* of the reloaded model equals that of the saved model, and validate on the
\* reloaded model returns what validate returned on the saved model for the
\* same data
C2_RoundTripWeights ==
    /\ AfterLoad => reloaded.w = model.w
    /\ pc = "done" => reloadAcc = testAcc
C2_Witness ==
    /\ pc = "done"
    /\ model.w = [frozen |-> Pretrained, head |-> 2, bn |-> 1]
    /\ reloaded.w = model.w
    /\ reloadAcc = testAcc
    /\ reloadAcc # Zero

\* C3 as stated: once an epoch of the loop has completed, the checkpoint file
\* holds the bundle of that epoch
C3_CheckpointAfterEachEpoch ==
    (pc = "loop" /\ "epoch" \in model.has) =>
        /\ disk.exists
        /\ disk.epoch = model.epoch
        /\ disk.state_dict = model.w
\* C3 amended: the file is written once, by the save cell after the whole
\* loop and the test pass; until then it is left as it was, and from then on
\* it holds exactly the bundle of the last epoch, nothing of an older file
C3_CheckpointAfterTraining ==
    /\ [](AfterSave =>
            disk = [exists |-> TRUE,
                    epoch |-> epochs,
                    state_dict |-> model.w,
                    optimizer_state_dict |-> optimizer.state,
                    best_acc |-> best_acc,
                    class_to_idx |-> ClassToIdx,
                    n_classes |-> NClasses])
    /\ [][pc # "save" => disk' = disk]_vars
C3_Witness ==
    /\ pc = "load"
    /\ epochs >= 2
    /\ disk.exists
    /\ disk.epoch = epochs
    /\ disk.state_dict # StaleFile.state_dict

\* the largest of 0 and the members of a sequence of accuracies
MaxAcc(h) ==
    CHOOSE x \in {Zero} \cup {h[i] : i \in 1..Len(h)} :
        /\ RLeq(Zero, x)
        /\ \A i \in 1..Len(h) : RLeq(h[i], x)

\* C4: after every completed epoch e, model.best_acc is the maximum of 0 and
\* the accuracies validate returned in epochs 1..e, and it never decreases
C4_RunningBest ==
    /\ []("best_acc" \in model.has =>
            /\ Len(accHist) = model.epoch
            /\ model.best_acc = MaxAcc(accHist))
    /\ [][("best_acc" \in model.has) => RLeq(model.best_acc, model'.best_acc)]_vars
C4_Witness ==
    /\ pc = "loop"
    /\ Len(accHist) = 2
    /\ RLess(Zero, accHist[2])
    /\ RLess(accHist[2], accHist[1])
    /\ model.best_acc = accHist[1]

\* C5: during and after a train pass the frozen pretrained weight is what it
\* was when the pass began (only the classifier head may have changed);
\* during and after a validate pass no weight or buffer has changed
C5_OnlyHeadTrained ==
    /\ pc \in {"train", "epoch_validate"} => model.w.frozen = wAtPass.frozen
    /\ pc \in {"validate", "epoch_end", "test_end", "reload_end"} => CurModel.w = wAtPass
C5_Witness ==
    /\ pc = "epoch_validate"
    /\ model.w.head # wAtPass.head
    /\ model.w.frozen = wAtPass.frozen

\* C6: for any batch and any requested K1 <= K2, the top-K1 score returned
\* by accuracy_score is at most the top-K2 score
C6_MonotoneInK ==
    aRet # None =>
        \A i, j \in 1..Len(aTopK) : aTopK[i] <= aTopK[j] => RLeq(aRet[i], aRet[j])
C6_Witness ==
    /\ aRet # None
    /\ Len(aTopK) = 2
    /\ aTopK[1] > aTopK[2]
    /\ RLess(aRet[2], aRet[1])
    /\ \E b \in 1..Len(aOutput) : \E c, d \in AccIdx : c # d /\ aOutput[b][c] = aOutput[b][d]

\* number of the examples whose label is among the first k answers of topk
Hits(k) ==
    Cardinality({b \in 1..Len(aTarget) : \E r \in 1..k : aPreds[b][r] = aTarget[b]})
\* examples whose label is among the k highest scores however ties are broken
SureHits(k) ==
    Cardinality({b \in 1..Len(aTarget) :
        Cardinality({c \in AccIdx : c # aTarget[b]
                        /\ aOutput[b][c] >= aOutput[b][aTarget[b]]}) < k})
\* examples whose label is among the k highest scores for some tie-breaking
MayHits(k) ==
    Cardinality({b \in 1..Len(aTarget) :
        Cardinality({c \in AccIdx : aOutput[b][c] > aOutput[b][aTarget[b]]}) < k})

\* C7: for each requested K accuracy_score returns 100 * (examples whose
\* label is among the K highest-scoring indices) / (batch size), every
\* example counted at most once, so each score is between 0 and 100
C7_PercentageOfHits ==
    aRet # None =>
        /\ Len(aRet) = Len(aTopK)
        /\ \A i \in 1..Len(aTopK) :
              /\ aRet[i] = Norm(100 * Hits(aTopK[i]), Len(aTarget))
              /\ SureHits(aTopK[i]) <= Hits(aTopK[i])
              /\ Hits(aTopK[i]) <= MayHits(aTopK[i])
              /\ RLeq(Zero, aRet[i])
              /\ RLeq(aRet[i], Rat(100))
C7_Witness ==
    /\ aRet # None
    /\ Len(aTarget) = 2
    /\ aTopK = <<1, 2>>
    /\ aRet = <<Rat(50), Rat(100)>>
    /\ SureHits(1) = 0
    /\ MayHits(1) = 2

RECURSIVE HistSum(_)
\* total of v_i * n_i over a sequence of updates
HistSum(h) == IF h = <<>> THEN Zero
              ELSE RAdd(RMulInt(Head(h)[1], Head(h)[2]), HistSum(Tail(h)))
RECURSIVE HistCount(_)
\* total of n_i over a sequence of updates
HistCount(h) == IF h = <<>> THEN 0 ELSE Head(h)[2] + HistCount(Tail(h))

\* C8: after reset() and any updates (v_i, n_i) with positive weights, sum
\* is the total of v_i * n_i, count the total of n_i, value the last v, and
\* mean * count = sum
C8_TrackerTotals ==
    (vc # None /\ vcHist # <<>> /\ \A i \in 1..Len(vcHist) : vcHist[i][2] > 0) =>
        /\ vcErr = "none"
        /\ vc.sum = HistSum(vcHist)
        /\ vc.count = HistCount(vcHist)
        /\ vc.value = vcHist[Len(vcHist)][1]
        /\ RMulInt(vc.mean, vc.count) = vc.sum
C8_Witness ==
    /\ vcPrior > 0
    /\ vcHist = <<<<Rat(2), 1>>, <<Norm(1, 2), 2>>, <<Rat(1), 2>>>>
    /\ vc.sum = Rat(5)
    /\ vc.count = 5
    /\ vc.mean = Rat(1)
    /\ vc.value = Rat(1)

\* C9: right after construction or reset(), before any update, the tracker
\* reads value = 0, sum = 0, count = 0, mean = 0 and no error was raised,
\* whatever updates preceded the reset
C9_ZeroAfterReset ==
    vcOp \in {"init", "reset"} =>
        /\ vc = [value |-> Zero, sum |-> Zero, count |-> 0, mean |-> Zero]
        /\ vcErr = "none"
C9_Witness ==
    /\ vcOp = "reset"
    /\ vcPrior = MaxUpdates
    /\ vc.mean = Zero
    /\ vc.count = 0

\* C10 as stated: train and validate both return the mean held by the
\* accuracy tracker after the last batch
C10_BothPassesReturnMean ==
    pc \in {"epoch_validate", "epoch_end", "test_end", "reload_end"} => ret = acc.mean
\* C10 amended: validate returns the mean held by its accuracy tracker after
\* the last batch, a mean over all the examples of the pass; train returns
\* None
C10_ValidateReturnsMean ==
    /\ pc \in {"epoch_end", "test_end", "reload_end"} =>
          /\ ret = acc.mean
          /\ acc.count = DataLen(CurData)
          /\ RMulInt(ret, acc.count) = acc.sum
    /\ pc = "epoch_validate" => ret = None
C10_Witness ==
    /\ pc = "epoch_end"
    /\ ret = acc.mean
    /\ acc.value # acc.mean
    /\ RLess(Zero, ret)

(***************************************************************************)
(* predict                                                                 *)
(***************************************************************************)
\* raw scores the network may give an image (the network is external)
PScores == 0..1

\* what is found at image_path when it is a file: something PIL cannot
\* decode, or an image of the given PIL mode
FileKinds == {"text", "L", "RGBA", "RGB"}
\* process_image(Image.open(image_path)): Image.open raises OSError on a file
\* that is no image; (image - mean) / std raises ValueError unless the array
\* has three channels
PredictInputRaises(kind) ==
    IF kind = "text" THEN "OSError"
    ELSE IF kind # "RGB" THEN "ValueError" ELSE "none"

PredictModel_convertFirst(m, exists, kind) ==
    [m EXCEPT !.dtype = "double", !.device = "cpu", !.training = FALSE]
\* the model after predict: the isfile test and the reading of the image come
\* first and may raise, so model.double(), model.to('cpu') and model.eval()
\* run only for an existing file that holds a three-channel image
PredictModel(m, exists, kind) ==
    IF ~exists \/ PredictInputRaises(kind) # "none" THEN m
    ELSE [m EXCEPT !.dtype = "double", !.device = "cpu", !.training = FALSE]

\* torch.topk(output, topk) raises when topk exceeds the number of outputs
PredictTopKRaises(output, topk) == topk > Cardinality(DOMAIN output)

\* k, v = zip(*model.class_to_idx.items()): AttributeError without the
\* attribute, ValueError when the dict is empty
PredictMappingRaises(m) ==
    IF "class_to_idx" \notin m.has THEN "AttributeError"
    ELSE IF m.class_to_idx = <<>> THEN "ValueError" ELSE "none"

\* idx_to_class = dict(zip(v, k)): for an index held by several classes the
\* dict keeps the class inserted last
IdxToClass(class_to_idx) ==
    [i \in {class_to_idx[j][2] : j \in 1..Len(class_to_idx)} |->
        LET last == CHOOSE j \in 1..Len(class_to_idx) :
                        /\ class_to_idx[j][2] = i
                        /\ \A q \in 1..Len(class_to_idx) : class_to_idx[q][2] = i => q <= j
        IN  class_to_idx[last][1]]

PredictLabels_sortedPosition(class_to_idx, idx) ==
    [r \in 1..Len(idx) |-> Classes[idx[r] + 1]]
\* [idx_to_class.get(i) for i in label_idx[0].numpy()]
PredictLabels(class_to_idx, idx) ==
    LET inv == IdxToClass(class_to_idx)
    IN  [r \in 1..Len(idx) |-> IF idx[r] \in DOMAIN inv THEN inv[idx[r]] ELSE None]

\* image.squeeze(0).numpy(): the shape of what process_image returns for
\* its default out_size
PredictImageShape == <<3, 299, 299>>

RECURSIVE Pow2(_)
Pow2(n) == IF n = 0 THEN 1 ELSE 2 * Pow2(n - 1)
\* exp(x - m) to four decimals, as an integer of ten-thousandths
ExpShifted(x, m) == (ExpNeg(m - x) + 50) \div 100
\* nn.Softmax(dim=1) on one row: exp(x_i) / sum_j exp(x_j), the exponentials
\* taken relative to the largest score
Softmax(xs) ==
    LET m == RowMax(xs)
        tot == SeqSum([i \in 1..Len(xs) |-> ExpShifted(xs[i], m)])
    IN  [i \in 1..Len(xs) |-> Norm(ExpShifted(xs[i], m), tot)]

PredictProbs_fullSoftmax(output, idx) ==
    LET m == RowMax(output)
        tot == SeqSum([i \in 1..Cardinality(DOMAIN output) |-> ExpShifted(output[i - 1], m)])
    IN  [r \in 1..Len(idx) |-> Norm(ExpShifted(output[idx[r]], m), tot)]
\* sm(prob): the softmax of the topk selected raw scores only
PredictProbs(output, idx) == Softmax([r \in 1..Len(idx) |-> output[idx[r]]])

\* the dicts a model may carry as class_to_idx: the sorted class names onto
\* the output indices one-to-one (what ImageFolder builds, relabelled), and
\* dicts of at most two items in any insertion order with any indices
PermDicts ==
    { [i \in 1..NClasses |-> <<Classes[i], p[i] - 1>>] : p \in Shuffles(NClasses) }
SmallDicts ==
    {<<>>}
    \cup { <<<<Classes[j], v>>>> : j \in 1..2, v \in 0..(NClasses - 1) }
    \cup { <<<<Classes[j], v>>, <<Classes[3 - j], u>>>> :
              j \in 1..2, v \in 0..(NClasses - 1), u \in 0..(NClasses - 1) }
Mappings == PermDicts \cup SmallDicts

\* a model in any precision, on any device, in any mode, with or without
\* the attribute class_to_idx, and the arguments of a call of predict
InitPredict ==
    /\ \E head \in WVals, dt \in {"float", "double"}, dev \in {"cpu", "cuda"},
          tr \in BOOLEAN :
          \/ \E cti \in Mappings :
                pModel = [NewModel(NClasses, head) EXCEPT
                             !.dtype = dt, !.device = dev, !.training = tr,
                             !.class_to_idx = cti, !.has = {"class_to_idx"}]
          \/ pModel = [NewModel(NClasses, head) EXCEPT
                          !.dtype = dt, !.device = dev, !.training = tr]
    /\ \/ pExists = FALSE /\ pImage = "none"
       \/ pExists = TRUE /\ pImage \in FileKinds
    /\ pTopk \in 1..(NClasses + 1)
    /\ pOpened = FALSE
    /\ pOutput = <<>> /\ pIdx = <<>> /\ pRet = None /\ pErr = "none"
    /\ ScriptIdle /\ VCIdle /\ AccIdle /\ ImgIdle /\ DataIdle

\* predict(image_path, model, topk)
PredictCall ==
    /\ pErr = "none" /\ pRet = None /\ ~pOpened
    /\ pModel' = PredictModel(pModel, pExists, pImage)
    /\ IF ~pExists
         THEN /\ pErr' = "FileNotFoundError"
              /\ UNCHANGED <<pOpened, pOutput, pIdx, pRet>>
       ELSE IF PredictInputRaises(pImage) # "none"
         THEN /\ pOpened' = TRUE
              /\ pErr' = PredictInputRaises(pImage)
              /\ UNCHANGED <<pOutput, pIdx, pRet>>
         ELSE /\ pOpened' = TRUE
              /\ \E output \in [0..(NClasses - 1) -> PScores] :
                   /\ pOutput' = output
                   /\ IF PredictTopKRaises(output, pTopk)
                        THEN /\ pErr' = "RuntimeError"
                             /\ UNCHANGED <<pIdx, pRet>>
                        ELSE \E idx \in TopK(output, pTopk) :
                               /\ pIdx' = idx
                               /\ pErr' = PredictMappingRaises(pModel)
                               /\ pRet' = IF PredictMappingRaises(pModel) # "none"
                                            THEN None
                                            ELSE <<PredictProbs(output, idx),
                                                   PredictLabels(pModel.class_to_idx, idx),
                                                   PredictImageShape>>
    /\ UNCHANGED <<pExists, pImage, pTopk, scriptVars, vcVars, accVars, imgVars, dataVars>>

NextPredict ==
    \/ PredictCall

SpecPredict == InitPredict /\ [][NextPredict]_vars

\* C11: predict on a path that is not an existing file raises
\* FileNotFoundError before the image is opened and before the model is
\* touched: precision, device, mode and weights are as the caller left them
C11_MissingFileLeavesModel ==
    [][~pExists =>
          /\ pErr' = "FileNotFoundError"
          /\ pOpened' = FALSE
          /\ pRet' = None
          /\ pModel'.dtype = pModel.dtype
          /\ pModel'.device = pModel.device
          /\ pModel'.training = pModel.training
          /\ pModel'.w = pModel.w]_vars
C11_Witness ==
    /\ pErr = "FileNotFoundError"
    /\ ~pOpened
    /\ pModel.dtype = "float"
    /\ pModel.device = "cuda"
    /\ pModel.training

\* a dict whose values are distinct and include every index of a set
OneToOneCovering(d, indices) ==
    /\ \A j, q \in 1..Len(d) : j # q => d[j][2] # d[q][2]
    /\ indices \subseteq {d[j][2] : j \in 1..Len(d)}

\* C12: with a one-to-one class_to_idx that covers every output index,
\* predict returns exactly topk labels, in descending order of raw score; the
\* label of a selected index i is the class c with class_to_idx[c] = i, so
\* every label is a class name and none is None
C12_LabelsInvertMapping ==
    (pRet # None /\ OneToOneCovering(pModel.class_to_idx, DOMAIN pOutput)) =>
        /\ Len(pRet[2]) = pTopk
        /\ Len(pIdx) = pTopk
        /\ \A r \in 1..pTopk :
              /\ pRet[2][r] \in DictKeys(pModel.class_to_idx)
              /\ DictGet(pModel.class_to_idx, pRet[2][r]) = pIdx[r]
        /\ \A r, q \in 1..pTopk : r < q =>
              /\ pIdx[r] # pIdx[q]
              /\ pOutput[pIdx[r]] >= pOutput[pIdx[q]]
        /\ \A c \in DOMAIN pOutput :
              (\A r \in 1..pTopk : pIdx[r] # c) =>
                  \A r \in 1..pTopk : pOutput[pIdx[r]] >= pOutput[c]
C12_Witness ==
    /\ pRet # None
    /\ pTopk = 2
    /\ pModel.class_to_idx = <<<<"1", 2>>, <<"10", 1>>, <<"2", 0>>>>
    /\ pIdx[1] = 0
    /\ pRet[2][1] = "2"
    /\ pOutput[pIdx[1]] > pOutput[pIdx[2]]

RECURSIVE RSum(_)
\* the sum of a sequence of rationals
RSum(ps) == IF ps = <<>> THEN Zero ELSE RAdd(Head(ps), RSum(Tail(ps)))

\* C13: the probabilities predict returns are non-negative, sum to 1 over the
\* returned top-K set and follow the order of the top-K raw scores
C13_ProbabilitiesOverTopK ==
    pRet # None =>
        /\ Len(pRet[1]) = pTopk
        /\ \A r \in 1..pTopk : RLeq(Zero, pRet[1][r])
        /\ RSum(pRet[1]) = Rat(1)
        /\ \A r, q \in 1..pTopk :
              /\ r < q => RLeq(pRet[1][q], pRet[1][r])
              /\ pOutput[pIdx[r]] > pOutput[pIdx[q]] => RLess(pRet[1][q], pRet[1][r])
              /\ pOutput[pIdx[r]] = pOutput[pIdx[q]] => pRet[1][r] = pRet[1][q]
C13_Witness ==
    /\ pRet # None
    /\ pTopk = 2
    /\ pTopk < Cardinality(DOMAIN pOutput)
    /\ pRet[1] = <<Norm(10000, 13679), Norm(3679, 13679)>>

(***************************************************************************)
(* process_image                                                           *)
(*                                                                         *)
(* scale = (out_size + 32) / np.min([w, h]) and scale * w are 64-bit float *)
(* operations, each rounded to 53 significant bits, and int() truncates.   *)
(* ScaleInt computes int(scale * x) exactly, in integer arithmetic.        *)
(***************************************************************************)
MaxSide == 11
MaxOut == 17

RECURSIVE Log2Ge(_, _, _)
Log2Ge(a, b, m) == IF a >= 2 * b * Pow2(m) THEN Log2Ge(a, b, m + 1) ELSE m
RECURSIVE Log2Lt(_, _, _)
Log2Lt(a, b, j) == IF a * Pow2(j) < b THEN Log2Lt(a, b, j + 1) ELSE j
\* floor(log2(a / b)): the binary exponent of the float a / b
FloorLog2(a, b) == IF a >= b THEN Log2Ge(a, b, 0) ELSE -Log2Lt(a, b, 1)

RECURSIVE PowMod(_, _)
\* 2^k modulo w
PowMod(k, w) == IF k = 0 THEN 1 % w ELSE (2 * PowMod(k - 1, w)) % w

ScaleInt_exact(a, w, x) == (a * x) \div w
\* int((a / w) * x) in 64-bit floats, for integers a, w, x >= 1.
\* The quotient a / w is rounded at bit 52 - m, m its exponent, leaving the
\* remainder r; when it was rounded down and a * x / w is a whole number n,
\* the product lies below n and is rounded back to n only if it is within
\* half a unit in the last place of n; otherwise int() gives n - 1.
ScaleInt(a, w, x) ==
    LET m == FloorLog2(a, w)
        r == ((a % w) * PowMod(52 - m, w)) % w
        n == (a * x) \div w
        f == (a * x) % w
        e == FloorLog2(n, 1)
        d == e - m - (IF n = Pow2(e) THEN 2 ELSE 1)
        back == IF d >= 0 THEN r * x <= w * Pow2(d) ELSE r * x * Pow2(-d) <= w
    IN  IF f # 0 \/ r = 0 \/ 2 * r > w THEN n
        ELSE IF back THEN n ELSE n - 1

\* image.resize((int(scale * w), int(scale * h)))
Resize(w, h, out_size) ==
    LET a == out_size + 32
        short == Min(w, h)
    IN  <<ScaleInt(a, short, w), ScaleInt(a, short, h)>>

\* int(x / 2) for an integer x: int() truncates towards zero
TruncHalf(x) == IF x >= 0 THEN x \div 2 ELSE -((-x) \div 2)

CropBox_symmetric(size, out_size) ==
    LET left == TruncHalf(size[1] - out_size)
        upper == TruncHalf(size[2] - out_size)
    IN  <<left, upper, size[1] - left, size[2] - upper>>
\* the box (left, upper, right, lower) given to image.crop
CropBox(size, out_size) ==
    LET left == TruncHalf(size[1] - out_size)
        upper == TruncHalf(size[2] - out_size)
    IN  <<left, upper, left + out_size, upper + out_size>>

\* image.crop(box) has the size of the box, np.array of a three-channel
\* image has shape (height, width, 3), and transpose((2, 0, 1)) moves the
\* channel axis first
ArrayShape(box) ==
    LET hwc == <<box[4] - box[2], box[3] - box[1], 3>>
    IN  <<hwc[3], hwc[1], hwc[2]>>

\* a three-channel image of any size and any target size
InitImg ==
    /\ iW \in 1..MaxSide
    /\ iH \in 1..MaxSide
    /\ iS \in 1..MaxOut
    /\ iResized = None /\ iBox = None /\ iShape = None
    /\ ScriptIdle /\ VCIdle /\ AccIdle /\ PredIdle /\ DataIdle

\* process_image(image, out_size)
ProcessImageCall ==
    /\ iShape = None
    /\ iResized' = Resize(iW, iH, iS)
    /\ iBox' = CropBox(iResized', iS)
    /\ iShape' = ArrayShape(iBox')
    /\ UNCHANGED <<iW, iH, iS, scriptVars, vcVars, accVars, predVars, dataVars>>

NextImg ==
    \/ ProcessImageCall

SpecImg == InitImg /\ [][NextImg]_vars

\* C14: for a three-channel image of any width and height and any target
\* size S, process_image returns an array of shape 3 x S x S
C14_OutputShape ==
    iShape # None => iShape = <<3, iS, iS>>
C14_Witness ==
    /\ iShape = <<3, 17, 17>>
    /\ iW = 11
    /\ iH = 4
    /\ iResized[2] = 49
    /\ (iResized[1] - iS) % 2 = 1

\* C15: after the resize the shortest side is exactly S + 32, the other side
\* is the long side times (S + 32) / min(W, H) truncated to an integer, and
\* the S x S crop window lies inside the resized image
C15_ResizeExact ==
    iResized # None =>
        /\ Min(iResized[1], iResized[2]) = iS + 32
        /\ iResized[1] = ((iS + 32) * iW) \div Min(iW, iH)
        /\ iResized[2] = ((iS + 32) * iH) \div Min(iW, iH)
        /\ iBox[1] >= 0 /\ iBox[2] >= 0
        /\ iBox[3] <= iResized[1] /\ iBox[4] <= iResized[2]

(***************************************************************************)
(* download_file / get_data                                                *)
(*                                                                         *)
(* A path is the sequence of its components; the disk is the set of the    *)
(* paths that exist.                                                       *)
(***************************************************************************)
\* the global data_dir, which download_file uses whatever its dest_dir
GlobalDataDir == "flowers"
\* directories get_data may be given
DataDirs == {"flowers", "data"}
\* os.path.split(data_url)[-1]
ArchiveName == "flower_data.tar.gz"
\* the directories the archive holds
ArchiveMembers == {"train", "valid", "test"}
\* what the network does with the request: the archive arrives, the
\* connection fails before any byte, it breaks during the transfer, or the
\* server answers something that is not an archive
NetCases == {"archive", "unreachable", "broken", "not_archive"}

\* fn = os.path.join(data_dir, os.path.split(data_url)[-1])
ArchivePath == <<GlobalDataDir, ArchiveName>>

\* download_file: "raised" or "written", the disk afterwards, requests made
DownloadFile(fs, net) ==
    IF net = "unreachable"
      THEN [outcome |-> "raised", fs |-> fs, requests |-> 1]
    ELSE IF <<GlobalDataDir>> \notin fs
      THEN [outcome |-> "raised", fs |-> fs, requests |-> 1]
    ELSE IF net = "broken"
      THEN [outcome |-> "raised", fs |-> fs \cup {ArchivePath}, requests |-> 1]
    ELSE [outcome |-> "written", fs |-> fs \cup {ArchivePath}, requests |-> 1]

\* tar.extractall(path=data_dir)
Extract(fs, dir) == fs \cup {<<dir>>} \cup {<<dir, mem>> : mem \in ArchiveMembers}

RemoveArchive_keep(fs, fn) == fs
\* if os.path.isfile(fn): os.remove(fn)
RemoveArchive(fs, fn) == fs \ {fn}

\* if os.path.exists(train_dir): return
GetDataSkips(fs, dir) == <<dir, "train">> \in fs

\* get_data(url, data_dir)
GetData(fs, dir, net) ==
    IF GetDataSkips(fs, dir)
      THEN [outcome |-> "returned", fs |-> fs, requests |-> 0, extracted |-> None]
    ELSE LET made == fs \cup {<<dir>>}
             dl == DownloadFile(made, net)
         IN  IF dl.outcome = "raised" \/ net = "not_archive"
               THEN [outcome |-> "raised", fs |-> dl.fs, requests |-> dl.requests,
                     extracted |-> None]
               ELSE [outcome |-> "returned",
                     fs |-> RemoveArchive(Extract(dl.fs, dir), ArchivePath),
                     requests |-> dl.requests, extracted |-> <<dir>>]

\* the disks get_data may find: a directory holds any of train and a stale
\* archive
Disks ==
    { fs \in SUBSET ({<<dd>> : dd \in DataDirs}
                        \cup {<<dd, x>> : dd \in DataDirs, x \in {"train", ArchiveName}}) :
        \A q \in fs : Len(q) = 2 => <<q[1]>> \in fs }

InitData ==
    /\ gArg \in DataDirs
    /\ gFs \in Disks
    /\ gFs0 = gFs
    /\ gNet \in NetCases
    /\ gRequests = 0
    /\ gExtracted = None
    /\ gOutcome = "none"
    /\ ScriptIdle /\ VCIdle /\ AccIdle /\ PredIdle /\ ImgIdle

\* the call get_data(data_url, data_dir)
GetDataCall ==
    /\ gOutcome = "none"
    /\ LET res == GetData(gFs, gArg, gNet)
       IN  /\ gFs' = res.fs
           /\ gRequests' = res.requests
           /\ gExtracted' = res.extracted
           /\ gOutcome' = res.outcome
    /\ UNCHANGED <<gArg, gFs0, gNet, scriptVars, vcVars, accVars, predVars, imgVars>>

NextData ==
    \/ GetDataCall

SpecData == InitData /\ [][NextData]_vars

\* C16: get_data downloads only when the training directory is absent: if
\* it exists there is no network request and the disk is unchanged;
\* otherwise, when get_data returns normally, the archive has been extracted
\* into the data directory and the archive file no longer exists
C16_DownloadOnlyWhenAbsent ==
    gOutcome # "none" =>
        /\ <<gArg, "train">> \in gFs0 =>
              /\ gOutcome = "returned"
              /\ gRequests = 0
              /\ gFs = gFs0
        /\ <<gArg, "train">> \notin gFs0 => gRequests = 1
        /\ (<<gArg, "train">> \notin gFs0 /\ gOutcome = "returned") =>
              /\ gExtracted = <<gArg>>
              /\ \A mem \in ArchiveMembers : <<gArg, mem>> \in gFs
              /\ <<GlobalDataDir, ArchiveName>> \notin gFs
              /\ gFs0 \ {<<GlobalDataDir, ArchiveName>>} \subseteq gFs
C16_Witness ==
    /\ gOutcome = "returned"
    /\ gArg = "flowers"
    /\ gFs0 = {}
    /\ gRequests = 1
    /\ gFs = {<<"flowers">>, <<"flowers", "train">>, <<"flowers", "valid">>,
              <<"flowers", "test">>}

\* C17: ValueCache.update has no error conditions: for any value and any
\* weight n >= 0, in any state reached by reset and update calls, update
\* completes normally and leaves mean = sum / count
C17_UpdateNeverRaises ==
    vcOp = "update" =>
        /\ vcErr = "none"
        /\ vc.count > 0
        /\ RMulInt(vc.mean, vc.count) = vc.sum

\* the class the network scores highest for an image in evaluation mode
Predicted(w, img) ==
    CHOOSE c \in 0..(NClasses - 1) :
        \A o \in 0..(NClasses - 1) : Forward(w, img, 0)[c] >= Forward(w, img, 0)[o]
\* the examples of a data set the weights w classify correctly
RightOnes(w, name) ==
    { i \in 1..DataLen(name) : Predicted(w, Dataset(name)[i][1]) = Dataset(name)[i][2] }
\* the examples of the running pass that have been through a batch
SeenOnes == (1..DataLen(CurData)) \ { queue[i] : i \in 1..Len(queue) }

\* C18: each pass starts from zeroed trackers and updates them once per
\* batch weighted by the batch size, so what validate returns is
\* 100 * (examples of the pass classified correctly) / (examples of the
\* pass), whatever the batches and whatever the earlier passes
C18_ValidateIsOverallAccuracy ==
    /\ (pc \in {"train", "validate"} /\ Len(queue) = DataLen(IF pc = "train" THEN "train" ELSE CurData))
          => acc = VCNew /\ losses = VCNew
    /\ (pc = "validate" /\ SeenOnes # {}) =>
          /\ acc.count = Cardinality(SeenOnes)
          /\ acc.mean = Norm(100 * Cardinality(RightOnes(wAtPass, CurData) \cap SeenOnes),
                             Cardinality(SeenOnes))
    /\ pc \in {"epoch_end", "test_end", "reload_end"} =>
          ret = Norm(100 * Cardinality(RightOnes(wAtPass, CurData)), DataLen(CurData))
\* a second epoch's validation whose batches of two and of one score 50 and
\* 100: the weighted mean is 200/3 where the plain mean would be 75
C18_Witness ==
    /\ pc = "epoch_end"
    /\ epoch >= 1
    /\ acc.count = NValid
    /\ acc.value = Rat(100)
    /\ ret = Norm(200, 3)
    /\ accHist[1] # ret

\* the optimizer steps of one epoch: one per batch of the training loader
StepsPerEpoch == (NTrain + BatchSize - 1) \div BatchSize

\* C19: for any epoch count >= 1, when the script reaches save_checkpoint
\* every field of the bundle is defined and current: epoch is the number of
\* completed epochs, best_acc the largest validation accuracy of those
\* epochs, the optimizer state the one after the last training step,
\* class_to_idx the mapping of the training directory, n_classes the number
\* of classes the model was built with
C19_BundleFieldsCurrent ==
    pc = "save" =>
        /\ ~SaveRaises(model)
        /\ LET bundle == Checkpoint(model)
           IN  /\ Len(accHist) = epochs
               /\ bundle.epoch = Len(accHist)
               /\ bundle.best_acc = MaxAcc(accHist)
               /\ bundle.optimizer_state_dict = optimizer.state
               /\ bundle.optimizer_state_dict = epochs * StepsPerEpoch
               /\ bundle.state_dict = model.w
               /\ bundle.class_to_idx = ClassToIdx
               /\ bundle.n_classes = model.n_out
C19_Witness ==
    /\ pc = "save"
    /\ epochs >= 2
    /\ model.epoch = epochs
    /\ model.best_acc # Zero
    /\ model.best_acc # accHist[Len(accHist)]
    /\ model.optimizer_state = epochs * StepsPerEpoch
====
